---- MODULE Spec2Model ----
(***************************************************************************)
(* Model of the UCT engine facade and its root-parallel playout driver     *)
(* (uct/uct.c): per-game board state, notify_play, genmove, pass safety    *)
(* and the spawn / finish / join protocol of uct_threaded_playouts.        *)
(*                                                                         *)
(* Threads are modelled at the granularity of the pthread calls.  A wait   *)
(* on finish_cond returns only after a pthread_cond_signal, and a mutex    *)
(* may be unlocked by a thread other than the one that locked it (the      *)
(* driver unlocks finish_serializer, which a worker locked), as the        *)
(* default mutex of the platform allows.                                   *)
(*                                                                         *)
(* The tree, the playout walker, the policy and the board live outside     *)
(* uct.c; they are modelled by what the specification says of them, with   *)
(* the data they depend on (legal moves, book contents, playout results,   *)
(* node values) drawn from small sets.                                     *)
(***************************************************************************)
EXTENDS Integers, FiniteSets, Sequences, TLC

\* ------------------------------------------------------------- bounds
\* Largest u->threads explored by RootSpec (one root-parallel search).
MaxThreads == 3
\* Largest u->games (playout budget of one uct_playouts call).
MaxGames == 1
\* Cap on b->moves.
MaxMoves == 2
\* Number of board coordinates other than pass.
BoardPoints == 1
\* force_seed and the states of the random generator are 0..MaxSeed
MaxSeed == 2
\* the options in an argument of uct_state_init
MaxOpts == 2

\* ---------------------------------------------------- program constants
GJ_MINGAMES == 500
MC_GAMES == 80000
\* u->resign_ratio = 0.2, in percent; node values are percentages too.
resign_ratio == 20

\* ------------------------------------------------------------ data
S_BLACK == "S_BLACK"
S_WHITE == "S_WHITE"
S_NONE == "S_NONE"
Colors == {S_BLACK, S_WHITE}
\* What a point of a finished playout can be: dame, black or white.
OwnerColors == {S_NONE, S_BLACK, S_WHITE}
\* The owner map is followed at one point of the board, a point that is
\* black's at the end of every finished playout.
PointOwner == S_BLACK

stone_other(c) == IF c = S_BLACK THEN S_WHITE ELSE S_BLACK

pass == 0
resign == 0 - 1
\* Coordinate of a root that no move leads to (a freshly initialised tree).
no_move == 0 - 2
Coords == 1..BoardPoints
\* The moves a tree node can stand for: every legal point, and pass.
Moves == Coords \cup {pass}
is_pass(c) == c = pass
is_resign(c) == c = resign

\* Values tree_node_get_value may give for the chosen node, in percent:
\* below, at and above the resign ratio.
BestValues == {10, 20, 50}

Threads == 0..(MaxThreads - 1)

\* u->threads in sequences of engine calls (Spec): no worker, and one.  The
\* driver with more workers is followed in RootSpec.
EngineThreads == {0, 1}

VARIABLES
    u,                  \* struct uct: the engine configuration
    b,                  \* struct board: b->moves, is_pass(b->last_move.coord)
    es,                 \* b->es # NULL: per-game state exists
    t,                  \* ub->t: the master tree
    om,                 \* ub->ownermap
    uct_halt,
    finish_mutex,       \* "free", "driver" or "worker"
    finish_serializer,  \* "free" or "locked"
    finish_thread,
    dpc,                \* where the calling (driver) thread is
    fr,                 \* locals of uct_genmove / uct_threaded_playouts
    wpc,                \* where each worker thread is
    wgames,             \* each worker's playout count (ctx->games on return)
    wreg,               \* each worker's registers during an ownermap update
    wres,               \* each worker's spawn_ctx and private tree
    reaped,             \* how often each worker was joined, merged, freed
    recorded,           \* playouts recorded into the owner map since its reset
    halted,             \* "run", or how the process ended
    hist,               \* the last engine call and its outcome
    game,               \* the colour the engine plays in a followed game
    runs,               \* two runs of one engine that get the same calls
    mg,                 \* the visit counts of one TM_ROOT collection
    cfg                 \* the argument of uct_state_init and how it ended

vars == <<u, b, es, t, om, uct_halt, finish_mutex, finish_serializer,
          finish_thread, dpc, fr, wpc, wgames, wreg, wres, reaped, recorded,
          halted, hist, game, runs, mg, cfg>>

engineVars == <<u, b, es, t, om, hist>>
syncVars == <<uct_halt, finish_mutex, finish_serializer, finish_thread>>
workerVars == <<wpc, wgames, wreg, wres, reaped, recorded>>
\* What no engine call and no thread of a search writes.
auxVars == <<game, runs, mg, cfg>>

\* ------------------------------------------------------------ values
NoTree == [root_color |-> S_NONE, coord |-> no_move, kids |-> {}]
NoMap == [playouts |-> 0, map |-> [c \in OwnerColors |-> 0]]
NoFrame == [color |-> S_NONE, legal |-> {}, played_games |-> 0, joined |-> 0, ti |-> 0]
NoReg == [p |-> 0, m |-> 0]
NoHist == [op |-> "none", out |-> "none", ret |-> no_move, nonalt |-> FALSE]
NoWorkers ==
    /\ wpc' = [i \in Threads |-> "none"]
    /\ wgames' = [i \in Threads |-> 0]
    /\ wreg' = [i \in Threads |-> NoReg]
    /\ wres' = [i \in Threads |-> "none"]
    /\ reaped' = [i \in Threads |-> [joins |-> 0, merges |-> 0, frees |-> 0]]
    /\ recorded' = 0


\* ------------------------------------------------------------ the tree
\* tree_init(b, color): color is the colour to move at the root, and the
\* tree's root_color is the colour that played to reach the root.
tree_init(color) ==
    [root_color |-> stone_other(color), coord |-> no_move, kids |-> {}]

\* tree_promote_at(t, b, c) succeeds when the root has a child for c.
tree_promote_at_ok(tree, c) == c \in tree.kids

\* Re-rooting at the child for c: the child moved, so the colours swap;
\* grand are the children the promoted node already has.
tree_promote_node(tree, c, grand) ==
    [root_color |-> stone_other(tree.root_color), coord |-> c, kids |-> grand]

\* tree_merge(dst, src) on the root's children: children only in src are
\* grafted into dst.
tree_merge(dst, grafts) == [dst EXCEPT !.kids = @ \cup grafts]

\* ------------------------------------------------------- the owner map
\* One playout recorded into the owner map: the playout counter and the
\* counter of the point's final colour both go up by one.
playout_ownermap_fill(m, col) ==
    [playouts |-> m.playouts + 1, map |-> [m.map EXCEPT ![col] = @ + 1]]

\* k playouts recorded one after the other by a single thread, each leaving
\* the point with colour col.
RECURSIVE uct_playout_seq(_, _, _)
uct_playout_seq(m, col, k) ==
    IF k = 0 THEN m ELSE playout_ownermap_fill(uct_playout_seq(m, col, k - 1), col)

\* while (ub->ownermap.playouts < GJ_MINGAMES) uct_playout(...), run to
\* its end: the playouts still missing are all recorded.
uct_playout_until(m, col) ==
    IF m.playouts >= GJ_MINGAMES THEN m
    ELSE [playouts |-> GJ_MINGAMES,
          map |-> [m.map EXCEPT ![col] = @ + (GJ_MINGAMES - m.playouts)]]

\* ------------------------------------------------------- prepare_move
NonAlternatingOff(color, root_color) == FALSE
NonAlternatingSame(color, root_color) == color # root_color
NonAlternating(color, root_color) == color # stone_other(root_color)

\* "ok", or how prepare_move(e, b, color) ends the process: the assertions
\* of lines 49 and 66 abort, line 53 exits.
prepare_move_status(color) ==
    IF es
    THEN IF b.moves = 0 THEN "abort"
         ELSE IF NonAlternating(color, t.root_color) THEN "exit" ELSE "ok"
    ELSE IF ~u.no_book /\ b.moves = 0 /\ color # S_BLACK THEN "abort" ELSE "ok"

\* The tree prepare_move leaves: the existing one, or a fresh one with the
\* opening book (book: the root children the book holds) loaded into it.
prepare_move_tree(color, book) ==
    IF es THEN t
    ELSE [tree_init(color) EXCEPT
            !.kids = IF ~u.no_book /\ b.moves = 0 THEN book ELSE {}]

\* assert(ub); assert(ub->t && ub->ownermap.map) of uct_done_board_state,
\* for the state (ub) and the tree it holds where the call is made.  The
\* owner map is allocated by prepare_move together with the state and is
\* freed only here, with it.
uct_done_board_state_asserts(ub, tree) == ub /\ tree # NoTree

\* uct_done_board_state: the tree and the owner map are freed, b->es = NULL.
uct_done_board_state_keep ==
    /\ es' = es
    /\ t' = t
    /\ om' = om
uct_done_board_state ==
    /\ es' = FALSE
    /\ t' = NoTree
    /\ om' = NoMap

\* ------------------------------------------------------ initial state
\* uct_state_init: thread_model is TM_ROOT unless thread_model=none was
\* given, and TM_NONE whenever threads is 0.
thread_model_of(threads, opt) == IF threads = 0 THEN "TM_NONE" ELSE opt

Configs(threads) ==
    { [threads |-> n, thread_model |-> thread_model_of(n, opt), games |-> g,
       no_book |-> nb, pass_all_alive |-> pa] :
        n \in threads, opt \in {"TM_NONE", "TM_ROOT"}, g \in 1..MaxGames,
        nb \in BOOLEAN, pa \in BOOLEAN }

\* A board has no last move before the first one is played.
Boards ==
    { bd \in [moves : 0..MaxMoves, last_pass : BOOLEAN] :
        bd.moves = 0 => ~bd.last_pass }

InitCommon ==
    /\ es = FALSE
    /\ t = NoTree
    /\ om = NoMap
    /\ finish_mutex = "free"
    /\ finish_serializer = "free"
    /\ finish_thread = 0
    /\ fr = NoFrame
    /\ wpc = [i \in Threads |-> "none"]
    /\ wgames = [i \in Threads |-> 0]
    /\ wreg = [i \in Threads |-> NoReg]
    /\ wres = [i \in Threads |-> "none"]
    /\ reaped = [i \in Threads |-> [joins |-> 0, merges |-> 0, frees |-> 0]]
    /\ recorded = 0
    /\ halted = "run"
    /\ hist = NoHist

\* A run of the engine as far as the random numbers reach: the state flag,
\* the state of the generator, the children of the root, the move returned
\* by the last genmove.
NoRun == [es |-> FALSE, rng |-> 0, kids |-> {}, ret |-> no_move]
NoRuns == <<NoRun, NoRun>>

\* The visit counts of a node: playouts includes prior, the
\* equivalent-experience bonus the node got when it was expanded.
NoNode == [here |-> FALSE, playouts |-> 0, prior |-> 0]
\* The counts followed in a tree: the root's, and those of one child.
NoStats == [root |-> NoNode, kid |-> NoNode]
NoMerge == [base |-> NoStats, master |-> NoStats, plays |-> <<>>, prior |-> 0,
            joined |-> 0, left |-> {}, phase |-> "none"]

\* No game is followed.  color: the colour the engine plays; parity: the
\* number of moves put on the board, modulo 2.
NoGame == [color |-> S_NONE, parity |-> 0]

\* No argument is followed through uct_state_init.
NoArg == [arg |-> <<>>, out |-> "none"]

\* No game is followed, no pair of runs compared, no counts collected.
AuxInit ==
    /\ game = NoGame
    /\ runs = NoRuns
    /\ mg = NoMerge
    /\ cfg = NoArg

\* (pass_all_alive is read by uct_dead_group_list, which ScoringSpec follows.)
Init ==
    /\ InitCommon
    /\ uct_halt = 0
    /\ AuxInit
    /\ u \in { c \in Configs(EngineThreads) : ~c.pass_all_alive }
    /\ b = [moves |-> 0, last_pass |-> FALSE]
    /\ dpc = "idle"

\* ------------------------------------------------------ process exit
\* exit(1) or a failed assertion inside an engine call: the process is
\* gone, nothing runs afterwards.
Terminate(how, op, mv, nonalt) ==
    /\ halted' = how
    /\ hist' = [op |-> op, out |-> how, ret |-> mv, nonalt |-> nonalt]
    /\ UNCHANGED <<u, b, es, t, om, syncVars, dpc, fr, workerVars>>

\* Whether a call comes with state present and a colour that is not
\* stone_other(root_color).
ColorContradicts(color) == es /\ color # stone_other(t.root_color)

\* The root children an opening book can hold, where prepare_move loads it.
BookChoices == IF ~es /\ ~u.no_book /\ b.moves = 0 THEN SUBSET Moves ELSE {{}}

\* -------------------------------------------------- uct_notify_play
MoveInputs == [color : Colors, coord : Moves \cup {resign}]

ub_missing_ignored == TRUE
ub_missing_never == FALSE
\* if (!ub) of uct_notify_play: prepare_move is called only without state.
ub_missing == ~es

\* (The dynamic komi of prepare_move sets tree->extra_komi, a real number
\* that no decision of uct.c reads; it is left out.)
uct_notify_play(m, book, grand) ==
    /\ dpc = "idle"
    /\ halted = "run"
    /\ UNCHANGED auxVars
    /\ LET prep == ub_missing
           st == IF prep THEN prepare_move_status(m.color) ELSE "ok"
           t1 == IF prep THEN prepare_move_tree(m.color, book) ELSE t
           om1 == IF prep THEN NoMap ELSE om
           na == ColorContradicts(m.color)
       IN IF st # "ok"
          THEN Terminate(st, "notify_play", m.coord, na)
          ELSE IF /\ is_resign(m.coord) \/ ~tree_promote_at_ok(t1, m.coord)
                  /\ ~uct_done_board_state_asserts(es \/ prep, t1)
          THEN Terminate("done_abort", "notify_play", m.coord, na)
          ELSE /\ IF is_resign(m.coord)
                  THEN /\ uct_done_board_state
                       /\ hist' = [op |-> "notify_play", out |-> "resigned",
                                   ret |-> m.coord, nonalt |-> na]
                  ELSE IF tree_promote_at_ok(t1, m.coord)
                  THEN /\ es' = TRUE
                       /\ t' = tree_promote_node(t1, m.coord, grand)
                       /\ om' = om1
                       /\ hist' = [op |-> "notify_play", out |-> "promoted",
                                   ret |-> m.coord, nonalt |-> na]
                  ELSE /\ uct_done_board_state
                       /\ hist' = [op |-> "notify_play", out |-> "promote_failed",
                                   ret |-> m.coord, nonalt |-> na]
               /\ UNCHANGED <<u, b, syncVars, dpc, fr, workerVars, halted>>

\* The children a node promoted to root can have; one choice where the call
\* promotes nothing.
GrandChoices(m, book) ==
    IF /\ (ub_missing => prepare_move_status(m.color) = "ok")
       /\ tree_promote_at_ok(IF ub_missing THEN prepare_move_tree(m.color, book) ELSE t,
                             m.coord)
    THEN SUBSET Moves ELSE {{}}

NotifyPlay ==
    \E m \in MoveInputs, book \in BookChoices :
        \E grand \in GrandChoices(m, book) : uct_notify_play(m, book, grand)

\* -------------------------------------------------- uct_pass_is_safe
uct_pass_is_safe_unchecked(m, safe) == safe
\* safe: what pass_is_safe(b, color, &mq) says of the board.
uct_pass_is_safe(m, safe) ==
    IF m.playouts < GJ_MINGAMES THEN FALSE ELSE safe

\* A call of the exported uct_pass_is_safe between engine calls.
PassIsSafe ==
    /\ dpc = "idle"
    /\ halted = "run"
    /\ UNCHANGED auxVars
    /\ IF ~es
       THEN Terminate("abort", "pass_is_safe", no_move, FALSE)
       ELSE \E safe \in BOOLEAN :
              /\ hist' = [op |-> "pass_is_safe",
                          out |-> IF uct_pass_is_safe(om, safe) THEN "true" ELSE "false",
                          ret |-> no_move, nonalt |-> FALSE]
              /\ UNCHANGED <<u, b, es, t, om, syncVars, dpc, fr, workerVars, halted>>

\* ------------------------------------------------------- the board
\* A move is played on the board between engine calls.
BoardPlay ==
    /\ dpc = "idle"
    /\ halted = "run"
    /\ UNCHANGED auxVars
    /\ b.moves < MaxMoves
    /\ \E lp \in BOOLEAN : b' = [moves |-> b.moves + 1, last_pass |-> lp]
    /\ UNCHANGED <<u, es, t, om, syncVars, dpc, fr, workerVars, halted, hist>>

\* ------------------------------------------------------ uct_playouts
\* The stop predicate of the playout loop: the budget is used up, or the
\* driver raised uct_halt.  (The early stop on a very good best value needs
\* thousands of playouts and does not occur within MaxGames.)
uct_playouts_stop(i, games, halt) == i >= games \/ halt = 1

\* What the playouts of one thread can add below the root: nothing, or (the
\* root expanded) a child for each legal point of the position and for pass.
ExpandChoices(legal) == {{}, legal \cup {pass}}

\* ------------------------------------------------------- uct_genmove
uct_halt_kept(halt) == halt
\* uct_halt = 0
uct_halt_reset(halt) == 0

\* uct_threaded_playouts up to its first blocking point: TM_NONE goes on
\* to uct_playouts in the calling thread; TM_ROOT asserts threads > 0,
\* clears uct_halt and locks finish_mutex before spawning.
uct_threaded_playouts_enter(color, legal) ==
    IF u.thread_model = "TM_NONE"
    THEN /\ dpc' = "playouts"
         /\ fr' = [NoFrame EXCEPT !.color = color, !.legal = legal]
         /\ UNCHANGED <<syncVars, workerVars, halted>>
    ELSE IF u.threads <= 0
    THEN /\ halted' = "abort"
         /\ UNCHANGED <<syncVars, dpc, fr, workerVars>>
    ELSE /\ finish_mutex = "free"
         /\ uct_halt' = uct_halt_reset(uct_halt)
         /\ finish_mutex' = "driver"
         /\ dpc' = "spawn"
         /\ fr' = [NoFrame EXCEPT !.color = color, !.legal = legal]
         /\ NoWorkers
         /\ UNCHANGED <<finish_serializer, finish_thread, halted>>

\* uct_genmove from its start to the search: prepare_move and the entry of
\* uct_threaded_playouts.  (The superko warning before them only prints and
\* clears a flag of the board that uct.c reads nowhere else.)  legal: the
\* points of the position that the colour to move may play.
uct_genmove_enter(at, color, book, legal) ==
    /\ dpc = at
    /\ halted = "run"
    /\ UNCHANGED auxVars
    /\ LET st == prepare_move_status(color)
           na == ColorContradicts(color)
       IN IF st # "ok"
          THEN Terminate(st, "genmove", no_move, na)
          ELSE /\ es' = TRUE
               /\ t' = prepare_move_tree(color, book)
               /\ om' = NoMap
               /\ hist' = [op |-> "genmove", out |-> "search",
                           ret |-> no_move, nonalt |-> na]
               /\ uct_threaded_playouts_enter(color, legal)
               /\ UNCHANGED <<u, b>>

LegalChoices(color) == IF prepare_move_status(color) = "ok" THEN SUBSET Coords ELSE {{}}

Genmove ==
    \E color \in Colors, book \in BookChoices :
        \E legal \in LegalChoices(color) : uct_genmove_enter("idle", color, book, legal)

\* TM_NONE: played_games = uct_playouts(u, b, color, t) in the caller.  Of
\* the n playouts run, k finish and are recorded; the others hit an invalid
\* move in the tree descent.
PlayoutsNone ==
    /\ dpc = "playouts"
    /\ halted = "run"
    /\ UNCHANGED auxVars
    /\ LET n == IF uct_playouts_stop(0, u.games, uct_halt) THEN 0 ELSE u.games
       IN \E k \in 0..n :
            /\ om' = uct_playout_seq(om, PointOwner, k)
            /\ \E grafts \in IF k > 0 THEN ExpandChoices(fr.legal) ELSE {{}} :
                    t' = tree_merge(t, grafts)
            /\ fr' = [fr EXCEPT !.played_games = n]
            /\ recorded' = recorded + k
    /\ dpc' = "choose"
    /\ UNCHANGED <<u, b, es, syncVars, wpc, wgames, wreg, wres, reaped, halted, hist>>

should_resign_any(v, coord) == v < resign_ratio
\* tree_node_get_value(...) < u->resign_ratio && !is_pass(best->coord)
should_resign(v, coord) == v < resign_ratio /\ ~is_pass(coord)

\* b->moves > 1 && is_pass(b->last_move.coord)
opponent_passed == b.moves > 1 /\ b.last_pass

promoted_coord_kept(chosen, final) == chosen
\* best->coord as tree_promote_node and the return statement read it:
\* chosen is the coordinate of the node when it was chosen, final the one
\* after the pass override.
promoted_coord(chosen, final) == final

\* uct_genmove from policy->choose to its return.  best: the chosen child
\* of the root or no_move for NULL; v: its value; safe: what pass_is_safe
\* says; grand: the children of the promoted node.
uct_genmove_finish(best, v, safe, grand) ==
    /\ dpc = "choose"
    /\ halted = "run"
    /\ UNCHANGED auxVars
    /\ best \in t.kids \cup {no_move}
    /\ IF /\ best = no_move \/ should_resign(v, best)
          /\ ~uct_done_board_state_asserts(es, t)
       THEN Terminate("done_abort", "genmove", no_move, hist.nonalt)
       ELSE /\ IF best = no_move
               THEN /\ uct_done_board_state
                    /\ hist' = [hist EXCEPT !.out = "nil_pass", !.ret = pass]
               ELSE IF should_resign(v, best)
               THEN /\ uct_done_board_state
                    /\ hist' = [hist EXCEPT !.out = "resign", !.ret = resign]
               ELSE LET om1 == IF opponent_passed
                               THEN uct_playout_until(om, PointOwner) ELSE om
                        over == opponent_passed /\ uct_pass_is_safe(om1, safe)
                        coord == IF over THEN pass ELSE best
                    IN /\ es' = es
                       /\ om' = om1
                       /\ t' = tree_promote_node(t, promoted_coord(best, coord), grand)
                       /\ hist' = [hist EXCEPT
                                      !.out = IF over THEN "override" ELSE "move",
                                      !.ret = coord]
            /\ dpc' = "idle"
            /\ fr' = NoFrame
            /\ NoWorkers
            /\ UNCHANGED <<u, b, syncVars, halted>>

GenmoveFinish ==
    \E best \in Moves \cup {no_move} :
        \E v \in IF best = no_move THEN {50} ELSE BestValues :
            \E safe \in IF best # no_move /\ ~should_resign(v, best) /\ opponent_passed
                        THEN BOOLEAN ELSE {FALSE},
               grand \in IF best # no_move /\ ~should_resign(v, best)
                         THEN SUBSET Moves ELSE {{}} :
                uct_genmove_finish(best, v, safe, grand)

\* ------------------------------------------------ uct_dead_group_list
mock_state_lost(missing) == FALSE
\* bool mock_state = false; if (!ub) { ...; mock_state = true; }
mock_state(missing) == missing

\* uct_dead_group_list(e, b, mq).  Without state, prepare_move(e, b,
\* S_BLACK) makes one (its assertion of line 66 holds for black) and
\* GJ_MINGAMES playouts seed the owner map; dead_group_list only reads the
\* owner map (its assertion on the judgement of a group concerns
\* playout_ownermap_judge_group, which is not followed); the mock state is
\* then freed.
uct_dead_group_list(book) ==
    /\ dpc = "idle"
    /\ halted = "run"
    /\ UNCHANGED auxVars
    /\ IF u.pass_all_alive
       THEN /\ hist' = [op |-> "dead_group_list", out |-> "all_alive",
                        ret |-> no_move, nonalt |-> FALSE]
            /\ UNCHANGED <<u, b, es, t, om, syncVars, dpc, fr, workerVars, halted>>
       ELSE LET mock == mock_state(~es)
                t1 == IF es THEN t ELSE prepare_move_tree(S_BLACK, book)
                om1 == IF es THEN om ELSE uct_playout_until(NoMap, PointOwner)
            IN IF mock /\ ~uct_done_board_state_asserts(TRUE, t1)
               THEN Terminate("done_abort", "dead_group_list", no_move, FALSE)
               ELSE /\ hist' = [op |-> "dead_group_list",
                                out |-> IF es THEN "kept" ELSE "mock",
                                ret |-> no_move, nonalt |-> FALSE]
                    /\ IF mock
                       THEN uct_done_board_state
                       ELSE /\ es' = TRUE
                            /\ t' = t1
                            /\ om' = om1
                    /\ UNCHANGED <<u, b, syncVars, dpc, fr, workerVars, halted>>

DeadGroupList == \E book \in BookChoices : uct_dead_group_list(book)

\* ------------------------------------------- the random generator
\* fast_srandom(seed) and one fast_random draw: the generator is a counter
\* over 0..MaxSeed, a draw returns its state and steps it.
fast_srandom(seed) == seed % (MaxSeed + 1)
fast_random(rng) == (rng + 1) % (MaxSeed + 1)

force_seed_unset(force_seed) == FALSE
\* if (u->force_seed) of prepare_move
force_seed_set(force_seed) == force_seed # 0

\* prepare_move on a run: without state a tree is made and the generator
\* is seeded where force_seed is set; with state nothing is seeded.
prepare_move_run(r) ==
    IF r.es THEN r
    ELSE [r EXCEPT !.es = TRUE,
                   !.kids = {},
                   !.rng = IF force_seed_set(u.force_seed)
                           THEN fast_srandom(u.force_seed) ELSE @]

\* n playouts of uct_playouts on a run: each takes one draw, which (with
\* the position, pos) picks the child of the root it expands and descends.
RECURSIVE uct_playouts_run(_, _, _)
uct_playouts_run(r, pos, n) ==
    IF n = 0 THEN r
    ELSE uct_playouts_run([r EXCEPT !.kids = @ \cup {(r.rng + pos) % (BoardPoints + 1)},
                                    !.rng = fast_random(@)],
                          pos, n - 1)

\* uct_genmove on a run, thread_model none: prepare_move, u->games
\* playouts, the choice of the best child (the one the last playout
\* descended, its value given by the generator's state), resignation or
\* promotion.
uct_genmove_run(r, pos) ==
    LET r1 == prepare_move_run(r)
        r2 == uct_playouts_run(r1, pos, u.games)
        best == (r2.rng + MaxSeed + pos) % (BoardPoints + 1)
        v == IF r2.rng = 0 THEN 10 ELSE 50
    IN IF best \notin r2.kids
       THEN [r2 EXCEPT !.es = FALSE, !.kids = {}, !.ret = pass]
       ELSE IF should_resign(v, best)
       THEN [r2 EXCEPT !.es = FALSE, !.kids = {}, !.ret = resign]
       ELSE [r2 EXCEPT !.kids = Moves \ {best}, !.ret = best]

\* uct_notify_play on a run: prepare_move without state, then the
\* promotion of the child for the move or the loss of the state.
uct_notify_play_run(r, coord) ==
    LET r1 == prepare_move_run(r)
    IN IF is_resign(coord) \/ coord \notin r1.kids
       THEN [r1 EXCEPT !.es = FALSE, !.kids = {}]
       ELSE [r1 EXCEPT !.kids = Moves \ {coord}]

\* The same genmove, on the same board, in both runs.
RunsGenmove ==
    /\ halted = "run"
    /\ \E pos \in Moves :
        runs' = [i \in {1, 2} |-> uct_genmove_run(runs[i], pos)]
    /\ UNCHANGED <<engineVars, syncVars, dpc, fr, workerVars, halted, game, mg, cfg>>

\* The same notify_play in both runs.
RunsNotifyPlay ==
    /\ halted = "run"
    /\ \E coord \in Moves \cup {resign} :
        runs' = [i \in {1, 2} |-> uct_notify_play_run(runs[i], coord)]
    /\ UNCHANGED <<engineVars, syncVars, dpc, fr, workerVars, halted, game, mg, cfg>>

\* ------------------------------------------ the counts of the trees
\* ctx->t = tree_copy(t)
tree_copy(tree) == tree

\* One playout on a tree: the root is visited; through says whether the
\* playout descends the followed child, which is expanded with its prior
\* when it is not there yet.
uct_playout_stats(tree, through, prior) ==
    LET kid0 == IF tree.kid.here THEN tree.kid
                ELSE [here |-> TRUE, playouts |-> prior, prior |-> prior]
    IN [root |-> [tree.root EXCEPT !.playouts = @ + 1],
        kid |-> IF through THEN [kid0 EXCEPT !.playouts = @ + 1] ELSE tree.kid]

\* The tree of a worker when it has finished: the copy of the master after
\* play.games playouts, play.through of them through the followed child.
RECURSIVE uct_playouts_stats(_, _, _, _)
uct_playouts_stats(tree, games, through, prior) ==
    IF games = 0 THEN tree
    ELSE uct_playouts_stats(uct_playout_stats(tree, through > 0, prior),
                            games - 1, IF through > 0 THEN through - 1 ELSE 0, prior)

worker_tree(m, i) ==
    uct_playouts_stats(tree_copy(m.base), m.plays[i].games, m.plays[i].through, m.prior)

\* tree_merge at one node: the counts of matching nodes are summed and the
\* prior, which both hold, is subtracted once; a node only src has is
\* grafted.
tree_node_merge(dst, src) ==
    IF ~src.here THEN dst
    ELSE IF ~dst.here THEN src
    ELSE [dst EXCEPT !.playouts = @ + src.playouts - src.prior]

tree_merge_stats(dst, src) ==
    [root |-> tree_node_merge(dst.root, src.root),
     kid |-> tree_node_merge(dst.kid, src.kid)]

\* tree_normalize(t, factor): the counts of every node are divided by
\* factor, to the nearest whole number.
tree_normalize_node(node, factor) ==
    [node EXCEPT !.playouts = (2 * @ + factor) \div (2 * factor)]

tree_normalize(tree, factor) ==
    [root |-> tree_normalize_node(tree.root, factor),
     kid |-> tree_normalize_node(tree.kid, factor)]

collect_more_half(joined, threads) == joined < (threads + 1) \div 2
\* while (joined < u->threads)
collect_more(joined, threads) == joined < threads

\* One round of the collecting loop for worker i, whichever finished: its
\* tree is merged into the master.
MergeJoin(i) ==
    /\ halted = "run"
    /\ mg.phase = "merge"
    /\ collect_more(mg.joined, u.threads)
    /\ i \in mg.left
    /\ mg' = [mg EXCEPT !.master = tree_merge_stats(@, worker_tree(mg, i)),
                        !.joined = @ + 1,
                        !.left = @ \ {i}]
    /\ UNCHANGED <<engineVars, syncVars, dpc, fr, workerVars, halted, game, runs, cfg>>

\* After the loop: tree_normalize(t, u->threads).
MergeNormalize ==
    /\ halted = "run"
    /\ mg.phase = "merge"
    /\ ~collect_more(mg.joined, u.threads)
    /\ mg' = [mg EXCEPT !.master = tree_normalize(@, u.threads), !.phase = "done"]
    /\ UNCHANGED <<engineVars, syncVars, dpc, fr, workerVars, halted, game, runs, cfg>>

\* ----------------------------------------------------- uct_state_init
\* The argument is a comma separated list of options, name or name=value.
\* NoVal: the option has no '=' (optval is NULL).  "x" stands for any text
\* that is neither a number nor a name uct_state_init knows, the empty
\* text included.
NoVal == "NULL"
OptNames == {"games", "threads", "thread_model", "policy", "random_policy",
             "random_policy_chance", "playout", "pass_all_alive", "banner", "bogus"}
OptVals == {NoVal, "-1", "0", "2", "none", "root", "ucb1", "moggy", "x"}
Options == [name : OptNames, val : OptVals]

\* atoi(optval): the number a text starts with, 0 when it starts with none.
atoi(val) ==
    CASE val = "-1" -> 0 - 1
      [] val = "0" -> 0
      [] val = "2" -> 2
      [] OTHER -> 0

\* The struct after the defaults are assigned (calloc gives 0, NULL and
\* false to every field not assigned).  status: "parse" in the loop,
\* "banner" after its break, "exit" after exit(1).
uct_state_defaults ==
    [games |-> MC_GAMES, expand_p |-> 2, threads |-> 0, thread_model |-> "TM_ROOT",
     policy |-> "NULL", random_policy |-> "NULL", random_policy_chance |-> 0,
     playout |-> "NULL", pass_all_alive |-> FALSE, no_book |-> FALSE,
     status |-> "parse"]

\* One round of the option loop: the chain of strcasecmp tests in its
\* order, for the options followed.
uct_state_option(st, o) ==
    LET given == o.val # NoVal
    IN IF o.name = "games" /\ given
       THEN [st EXCEPT !.games = atoi(o.val)]
       ELSE IF o.name \in {"policy", "random_policy"} /\ given
       THEN IF o.val \in {"ucb1", "ucb1amaf"}
            THEN IF o.name = "policy" THEN [st EXCEPT !.policy = o.val]
                 ELSE [st EXCEPT !.random_policy = o.val]
            ELSE [st EXCEPT !.status = "exit"]
       ELSE IF o.name = "playout" /\ given
       THEN IF o.val \in {"moggy", "light"}
            THEN [st EXCEPT !.playout = o.val]
            ELSE [st EXCEPT !.status = "exit"]
       ELSE IF o.name = "threads" /\ given
       THEN [st EXCEPT !.threads = atoi(o.val)]
       ELSE IF o.name = "thread_model" /\ given
       THEN IF o.val = "none" THEN [st EXCEPT !.thread_model = "TM_NONE"]
            ELSE IF o.val = "root" THEN [st EXCEPT !.thread_model = "TM_ROOT"]
            ELSE [st EXCEPT !.status = "exit"]
       ELSE IF o.name = "pass_all_alive"
       THEN [st EXCEPT !.pass_all_alive = ~given \/ atoi(o.val) # 0]
       ELSE IF o.name = "random_policy_chance" /\ given
       THEN [st EXCEPT !.random_policy_chance = atoi(o.val)]
       ELSE IF o.name = "banner" /\ given
       THEN [st EXCEPT !.status = "banner"]
       ELSE [st EXCEPT !.status = "exit"]

\* while (*next) { ... }: the options in their order, until the argument
\* ends, banner breaks the loop or an option exits.
RECURSIVE uct_state_options(_, _)
uct_state_options(st, arg) ==
    IF arg = <<>> \/ st.status # "parse" THEN st
    ELSE uct_state_options(uct_state_option(st, Head(arg)), Tail(arg))

threads_unset_never(threads) == FALSE
\* if (!u->threads)
threads_unset(threads) == threads = 0

\* After the loop: the default policy, thread_model none without threads,
\* the test of random_policy against random_policy_chance.
uct_state_finish(st) ==
    IF st.status = "exit" THEN st
    ELSE LET st1 == [st EXCEPT
                        !.policy = IF @ = "NULL" THEN "ucb1amaf" ELSE @,
                        !.thread_model = IF threads_unset(st.threads) THEN "TM_NONE" ELSE @]
         IN IF (st1.random_policy_chance # 0) # (st1.random_policy # "NULL")
            THEN [st1 EXCEPT !.status = "exit"]
            ELSE [st1 EXCEPT !.playout = IF @ = "NULL" THEN "moggy" ELSE @,
                             !.status = "ok"]

uct_state_init(arg) == uct_state_finish(uct_state_options(uct_state_defaults, arg))

\* The engine is made from cfg.arg: u is the struct returned, or the
\* process exits.
UctStateInit ==
    /\ halted = "run"
    /\ cfg.out = "none"
    /\ LET st == uct_state_init(cfg.arg)
       IN IF st.status = "exit"
          THEN /\ halted' = "exit"
               /\ cfg' = [cfg EXCEPT !.out = "exit"]
               /\ UNCHANGED u
          ELSE /\ u' = st
               /\ cfg' = [cfg EXCEPT !.out = "ok"]
               /\ UNCHANGED halted
    /\ UNCHANGED <<b, es, t, om, hist, syncVars, dpc, fr, workerVars, game, runs, mg>>

\* The first genmove of the engine made, up to the start of its search.
FirstGenmove ==
    /\ cfg.out = "ok"
    /\ hist = NoHist
    /\ uct_genmove_enter("idle", S_BLACK, {}, {})

\* ------------------------------------------------------------ a game
\* The engine plays game.color against an opponent: genmove(c), the move
\* returned is put on the board, notify_play(other(c), m) for the
\* opponent's move m, which is put on the board, and so on.
\* Whether the move of the last call is on the board.
OnBoard ==
    \/ hist.op = "genmove" /\ game.parity = 1
    \/ hist.op = "notify_play" /\ game.parity = 0

\* genmove for the engine's colour, first or after the opponent's move.
GameGenmove ==
    /\ hist = NoHist \/ (hist.op = "notify_play" /\ hist.out = "promoted" /\ OnBoard)
    /\ \E book \in BookChoices :
        \E legal \in LegalChoices(game.color) :
            uct_genmove_enter("idle", game.color, book, legal)

\* The move of the last call, a move returned by genmove with a chosen
\* node or the opponent's move, is played on the board.
GamePlay ==
    /\ dpc = "idle"
    /\ halted = "run"
    /\ hist.out \in {"move", "override", "promoted"}
    /\ ~OnBoard
    /\ b.moves < MaxMoves
    /\ b' = [moves |-> b.moves + 1, last_pass |-> is_pass(hist.ret)]
    /\ game' = [game EXCEPT !.parity = 1 - @]
    /\ UNCHANGED <<u, es, t, om, hist, syncVars, dpc, fr, workerVars, halted,
                   runs, mg, cfg>>

\* notify_play for a move of the opponent that is among the children of
\* the root.
GameNotify ==
    /\ hist.op = "genmove"
    /\ hist.out \in {"move", "override"}
    /\ OnBoard
    /\ \E coord \in t.kids, grand \in SUBSET Moves :
        uct_notify_play([color |-> stone_other(game.color), coord |-> coord], {}, grand)

\* ------------------------------------- uct_threaded_playouts, TM_ROOT
Bump(f, i, field) == [f EXCEPT ![i][field] = @ + 1]

spawn_more_once(ti, threads) == ti < 1
\* for (int ti = 0; ti < u->threads; ti++)
spawn_more(ti, threads) == ti < threads

\* The tree a worker plays on, as an id: ctx->t = tree_copy(t) is a tree of
\* its own for worker ti; the master tree t has the id MasterTree.
MasterTree == 0 - 1
ctx_t(ti) == ti

\* One turn of the spawn loop: a spawn_ctx, a private copy of the tree and
\* a thread running spawn_helper.
DriverSpawn ==
    /\ dpc = "spawn"
    /\ halted = "run"
    /\ UNCHANGED auxVars
    /\ spawn_more(fr.ti, u.threads)
    /\ wpc' = [wpc EXCEPT ![fr.ti] = "run"]
    /\ wres' = [wres EXCEPT ![fr.ti] = "live"]
    /\ fr' = [fr EXCEPT !.ti = @ + 1]
    /\ dpc' = IF spawn_more(fr.ti + 1, u.threads) THEN "spawn" ELSE "loop"
    /\ UNCHANGED <<engineVars, syncVars, wgames, wreg, reaped, recorded, halted>>

\* while (joined < u->threads): pthread_cond_wait releases finish_mutex and
\* blocks until a worker signals.
DriverWait ==
    /\ dpc = "loop"
    /\ halted = "run"
    /\ UNCHANGED auxVars
    /\ fr.joined < u.threads
    /\ finish_mutex' = "free"
    /\ dpc' = "wait"
    /\ UNCHANGED <<engineVars, uct_halt, finish_serializer, finish_thread,
                   fr, workerVars, halted>>

\* pthread_cond_wait returns once it has finish_mutex again.
DriverWake ==
    /\ dpc = "woken"
    /\ halted = "run"
    /\ UNCHANGED auxVars
    /\ finish_mutex = "free"
    /\ finish_mutex' = "driver"
    /\ dpc' = "join"
    /\ UNCHANGED <<engineVars, uct_halt, finish_serializer, finish_thread,
                   fr, workerVars, halted>>

\* pthread_join(threads[finish_thread], &ctx); played_games += ctx->games;
\* joined++.  It blocks until that thread has returned; joining a thread
\* that was never created or was joined before is undefined.
DriverJoin ==
    /\ dpc = "join"
    /\ halted = "run"
    /\ UNCHANGED auxVars
    /\ IF finish_thread \in Threads /\ wpc[finish_thread] \notin {"none", "joined"}
       THEN /\ wpc[finish_thread] = "done"
            /\ wpc' = [wpc EXCEPT ![finish_thread] = "joined"]
            /\ reaped' = Bump(reaped, finish_thread, "joins")
            /\ fr' = [fr EXCEPT !.played_games = @ + wgames[finish_thread],
                                !.joined = @ + 1]
            /\ dpc' = "gather"
            /\ UNCHANGED halted
       ELSE /\ halted' = "ub"
            /\ UNCHANGED <<wpc, reaped, fr, dpc>>
    /\ UNCHANGED <<engineVars, syncVars, wgames, wreg, wres, recorded>>

halt_due_ceil(joined, threads) == joined >= (threads + 1) \div 2
\* if (joined >= u->threads / 2)
halt_due(joined, threads) == joined >= threads \div 2

serializer_unlock_skip == finish_serializer' = finish_serializer
\* pthread_mutex_unlock(&finish_serializer)
serializer_unlock == finish_serializer' = "free"

\* tree_merge, tree_done, free(ctx), the halt test and the release of the
\* serializer.  grafts: the root children the worker's tree grew.
DriverGather ==
    /\ dpc = "gather"
    /\ halted = "run"
    /\ UNCHANGED auxVars
    /\ \E grafts \in IF wgames[finish_thread] > 0 THEN ExpandChoices(fr.legal) ELSE {{}} :
         t' = tree_merge(t, grafts)
    /\ IF wres[finish_thread] = "live"
       THEN /\ wres' = [wres EXCEPT ![finish_thread] = "freed"]
            /\ UNCHANGED halted
       ELSE /\ halted' = "ub"
            /\ UNCHANGED wres
    /\ reaped' = Bump(Bump(reaped, finish_thread, "merges"), finish_thread, "frees")
    /\ uct_halt' = IF halt_due(fr.joined, u.threads) THEN 1 ELSE uct_halt
    /\ serializer_unlock
    /\ dpc' = "loop"
    /\ UNCHANGED <<u, b, es, om, hist, finish_mutex, finish_thread, fr,
                   wpc, wgames, wreg, recorded>>

\* The loop is over: finish_mutex is released, the tree normalized, and
\* played_games returned to uct_genmove.
DriverReturn ==
    /\ dpc = "loop"
    /\ halted = "run"
    /\ UNCHANGED auxVars
    /\ fr.joined >= u.threads
    /\ finish_mutex' = "free"
    /\ dpc' = "choose"
    /\ UNCHANGED <<engineVars, uct_halt, finish_serializer, finish_thread,
                   fr, workerVars, halted>>

\* ------------------------------------------------------ spawn_helper
\* One playout of a worker up to its owner map update: an invalid descent
\* counts as a game and records nothing; otherwise the worker loads the
\* counters it is about to increment.
WorkerPlayout(i) ==
    /\ wpc[i] = "run"
    /\ halted = "run"
    /\ UNCHANGED auxVars
    /\ ~uct_playouts_stop(wgames[i], u.games, uct_halt)
    /\ \E valid \in BOOLEAN :
         IF ~valid
         THEN /\ wgames' = [wgames EXCEPT ![i] = @ + 1]
              /\ UNCHANGED <<wpc, wreg>>
         ELSE /\ wreg' = [wreg EXCEPT ![i] = [p |-> om.playouts,
                                              m |-> om.map[PointOwner]]]
              /\ wpc' = [wpc EXCEPT ![i] = "fill"]
              /\ UNCHANGED wgames
    /\ UNCHANGED <<engineVars, syncVars, dpc, fr, wres, reaped, recorded, halted>>

\* The stores of the owner map update: the loaded values plus one.
WorkerFill(i) ==
    /\ wpc[i] = "fill"
    /\ halted = "run"
    /\ UNCHANGED auxVars
    /\ om' = [playouts |-> wreg[i].p + 1,
              map |-> [om.map EXCEPT ![PointOwner] = wreg[i].m + 1]]
    /\ wgames' = [wgames EXCEPT ![i] = @ + 1]
    /\ recorded' = recorded + 1
    /\ wreg' = [wreg EXCEPT ![i] = NoReg]
    /\ wpc' = [wpc EXCEPT ![i] = "run"]
    /\ UNCHANGED <<u, b, es, t, hist, syncVars, dpc, fr, wres, reaped, halted>>

serializer_lock_skip == finish_serializer' = finish_serializer
\* pthread_mutex_lock(&finish_serializer)
serializer_lock ==
    /\ finish_serializer = "free"
    /\ finish_serializer' = "locked"

\* uct_playouts returns (ctx->games is set) and the worker takes the
\* serializer.
WorkerSerialize(i) ==
    /\ wpc[i] = "run"
    /\ halted = "run"
    /\ UNCHANGED auxVars
    /\ uct_playouts_stop(wgames[i], u.games, uct_halt)
    /\ serializer_lock
    /\ wpc' = [wpc EXCEPT ![i] = "lock_mutex"]
    /\ UNCHANGED <<engineVars, uct_halt, finish_mutex, finish_thread, dpc, fr,
                   wgames, wreg, wres, reaped, recorded, halted>>

ctx_tid_unset(i) == 0
\* ctx->tid = ti, set when worker ti is spawned
ctx_tid(i) == i

\* pthread_mutex_lock(&finish_mutex); finish_thread = ctx->tid;
\* pthread_cond_signal(&finish_cond): a driver waiting on the condition is
\* woken, a signal nobody waits for is lost.
WorkerSignal(i) ==
    /\ wpc[i] = "lock_mutex"
    /\ halted = "run"
    /\ UNCHANGED auxVars
    /\ finish_mutex = "free"
    /\ finish_mutex' = "worker"
    /\ finish_thread' = ctx_tid(i)
    /\ dpc' = IF dpc = "wait" THEN "woken" ELSE dpc
    /\ wpc' = [wpc EXCEPT ![i] = "unlock"]
    /\ UNCHANGED <<engineVars, uct_halt, finish_serializer, fr,
                   wgames, wreg, wres, reaped, recorded, halted>>

\* pthread_mutex_unlock(&finish_mutex)
WorkerUnlock(i) ==
    /\ wpc[i] = "unlock"
    /\ halted = "run"
    /\ UNCHANGED auxVars
    /\ finish_mutex' = "free"
    /\ wpc' = [wpc EXCEPT ![i] = "return"]
    /\ UNCHANGED <<engineVars, uct_halt, finish_serializer, finish_thread, dpc, fr,
                   wgames, wreg, wres, reaped, recorded, halted>>

\* return ctx: the thread has ended and can be joined.
WorkerReturn(i) ==
    /\ wpc[i] = "return"
    /\ halted = "run"
    /\ UNCHANGED auxVars
    /\ wpc' = [wpc EXCEPT ![i] = "done"]
    /\ UNCHANGED <<engineVars, syncVars, dpc, fr, wgames, wreg, wres, reaped,
                   recorded, halted>>

\* The workers of a search: ti = 0 .. u->threads - 1.
Workers == 0..(u.threads - 1)

\* ---------------------------------------------------- specifications
\* Sequences of engine calls on one board, from a board without state.
Next ==
    \/ NotifyPlay
    \/ Genmove
    \/ PlayoutsNone
    \/ GenmoveFinish
    \/ PassIsSafe
    \/ BoardPlay
    \/ DriverSpawn
    \/ DriverWait
    \/ DriverWake
    \/ DriverJoin
    \/ DriverGather
    \/ DriverReturn
    \/ \E i \in Threads : WorkerPlayout(i)
    \/ \E i \in Threads : WorkerFill(i)
    \/ \E i \in Threads : WorkerSerialize(i)
    \/ \E i \in Threads : WorkerSignal(i)
    \/ \E i \in Threads : WorkerUnlock(i)
    \/ \E i \in Threads : WorkerReturn(i)

Spec == Init /\ [][Next]_vars

\* One genmove with root parallelization (up to MaxThreads workers), from
\* its call to the return of uct_threaded_playouts: the first move of a
\* game, which is black's, with every point of the board free.  uct_halt
\* holds what an earlier search of the process may have left in it.
RootInit ==
    /\ InitCommon
    /\ uct_halt \in {0, 1}
    /\ AuxInit
    /\ u \in { c \in Configs(1..MaxThreads) :
                c.thread_model = "TM_ROOT" /\ c.no_book /\ ~c.pass_all_alive }
    /\ b = [moves |-> 0, last_pass |-> FALSE]
    /\ dpc = "call"

RootGenmove ==
    \E book \in BookChoices : uct_genmove_enter("call", S_BLACK, book, Coords)

RootNext ==
    \/ RootGenmove
    \/ DriverSpawn
    \/ DriverWait
    \/ DriverWake
    \/ DriverJoin
    \/ DriverGather
    \/ DriverReturn
    \/ \E i \in Threads : WorkerPlayout(i)
    \/ \E i \in Threads : WorkerFill(i)
    \/ \E i \in Threads : WorkerSerialize(i)
    \/ \E i \in Threads : WorkerSignal(i)
    \/ \E i \in Threads : WorkerUnlock(i)
    \/ \E i \in Threads : WorkerReturn(i)

RootSpec == RootInit /\ [][RootNext]_vars

\* The steps of the calling thread and of worker i.
Driver ==
    \/ RootGenmove
    \/ DriverSpawn
    \/ DriverWait
    \/ DriverWake
    \/ DriverJoin
    \/ DriverGather
    \/ DriverReturn

Worker(i) ==
    \/ WorkerPlayout(i)
    \/ WorkerFill(i)
    \/ WorkerSerialize(i)
    \/ WorkerSignal(i)
    \/ WorkerUnlock(i)
    \/ WorkerReturn(i)

\* A search in which each worker's budget is one playout: a worker leaves
\* its loop with the budget used, or stopped by uct_halt before its playout.
RootFairInit ==
    /\ RootInit
    /\ u.games = 1

\* One root-parallel genmove under fair scheduling: a thread that can take
\* its next step, and stays able to, eventually takes it (a thread waiting
\* for a mutex that stays free eventually gets it).
RootFair ==
    /\ RootFairInit
    /\ [][RootNext]_vars
    /\ WF_vars(Driver)
    /\ \A i \in Threads : WF_vars(Worker(i))

\* Two runs of one engine without threads that receive the same calls.
\* Each starts without state and with the generator in whatever state the
\* program left it (it is seeded outside uct.c, from the clock).
RunsInit ==
    /\ InitCommon
    /\ uct_halt = 0
    /\ game = NoGame
    /\ mg = NoMerge
    /\ cfg = NoArg
    /\ \E c \in { cf \in Configs({0}) : cf.no_book /\ ~cf.pass_all_alive } :
       \E force_seed \in 0..MaxSeed :
        u = [threads |-> c.threads, thread_model |-> c.thread_model,
             games |-> c.games, no_book |-> c.no_book,
             pass_all_alive |-> c.pass_all_alive, force_seed |-> force_seed]
    /\ b = [moves |-> 0, last_pass |-> FALSE]
    /\ dpc = "idle"
    /\ \E r1, r2 \in 0..MaxSeed :
        runs = <<[NoRun EXCEPT !.rng = r1], [NoRun EXCEPT !.rng = r2]>>

RunsNext ==
    \/ RunsGenmove
    \/ RunsNotifyPlay

RunsSpec == RunsInit /\ [][RunsNext]_vars

\* The counts of one TM_ROOT collection: a master tree (with whatever
\* counts earlier searches and the promotion left in it), a copy of it for
\* each of the u->threads workers with the playouts the worker made, and
\* the loop that merges them in the order the workers finish.
StatNodes ==
    { n \in [here : {TRUE}, playouts : 0..MaxGames, prior : 0..1] :
        n.prior <= n.playouts }

StatTrees ==
    { tr \in [root : StatNodes, kid : StatNodes \cup {NoNode}] :
        tr.kid.playouts - tr.kid.prior <= tr.root.playouts - tr.root.prior }

Plays == { p \in [games : 0..MaxGames, through : 0..MaxGames] : p.through <= p.games }

MergeInit ==
    /\ InitCommon
    /\ uct_halt = 0
    /\ game = NoGame
    /\ runs = NoRuns
    /\ cfg = NoArg
    /\ u \in { c \in Configs(1..MaxThreads) :
                /\ c.thread_model = "TM_ROOT" /\ c.no_book /\ ~c.pass_all_alive
                /\ c.games = MaxGames }
    /\ b = [moves |-> 0, last_pass |-> FALSE]
    /\ dpc = "idle"
    /\ \E base \in StatTrees, plays \in [Workers -> Plays], prior \in 0..1 :
        mg = [base |-> base, master |-> base, plays |-> plays, prior |-> prior,
              joined |-> 0, left |-> Workers, phase |-> "merge"]

MergeNext ==
    \/ \E i \in Threads : MergeJoin(i)
    \/ MergeNormalize

MergeSpec == MergeInit /\ [][MergeNext]_vars

\* The making of an engine from an argument of up to MaxOpts options, and
\* its first genmove.
Args == UNION { [1..n -> Options] : n \in 0..MaxOpts }

StateInit ==
    /\ InitCommon
    /\ uct_halt = 0
    /\ game = NoGame
    /\ runs = NoRuns
    /\ mg = NoMerge
    /\ u = uct_state_defaults
    /\ b = [moves |-> 0, last_pass |-> FALSE]
    /\ dpc = "idle"
    /\ \E arg \in Args : cfg = [arg |-> arg, out |-> "none"]

StateNext ==
    \/ UctStateInit
    \/ FirstGenmove

StateSpec == StateInit /\ [][StateNext]_vars

\* A game of an engine without threads against an opponent, from a board
\* without moves and without state.
GameInit ==
    /\ InitCommon
    /\ uct_halt = 0
    /\ \E c \in Colors : game = [color |-> c, parity |-> 0]
    /\ runs = NoRuns
    /\ mg = NoMerge
    /\ cfg = NoArg
    /\ u \in { c \in Configs({0}) : ~c.pass_all_alive }
    /\ b = [moves |-> 0, last_pass |-> FALSE]
    /\ dpc = "idle"

GameNext ==
    \/ GameGenmove
    \/ PlayoutsNone
    \/ GenmoveFinish
    \/ GamePlay
    \/ GameNotify

GameSpec == GameInit /\ [][GameNext]_vars

\* The engine calls of a game that ends in scoring: one engine without
\* threads (thread_model none), with or without pass_all_alive.
ScoringInit ==
    /\ InitCommon
    /\ uct_halt = 0
    /\ AuxInit
    /\ u \in Configs({0})
    /\ b = [moves |-> 0, last_pass |-> FALSE]
    /\ dpc = "idle"

ScoringNext ==
    \/ NotifyPlay
    \/ BoardPlay
    \/ Genmove
    \/ PlayoutsNone
    \/ GenmoveFinish
    \/ DeadGroupList

ScoringSpec == ScoringInit /\ [][ScoringNext]_vars

\* ------------------------------------------------------------ properties
RECURSIVE SumGames(_)
SumGames(n) == IF n = 0 THEN 0 ELSE wgames[n - 1] + SumGames(n - 1)

\* The workers that have announced their completion (stored finish_thread
\* and signalled finish_cond).
Announced == { i \in Workers : wpc[i] \in {"unlock", "return", "done", "joined"} }

\* uct_threaded_playouts has returned to uct_genmove.
Returned == dpc = "choose"

\* C1: in ROOT mode every completion is observed exactly once.  No worker is
\* ever joined, merged or freed twice or out of turn (no undefined join or
\* free), the driver is never more than one announced completion behind,
\* and when uct_threaded_playouts returns every one of the N workers has
\* been joined once, merged once and freed once, and played_games is the
\* sum of the workers' game counts.
C1_EachCompletionOnce ==
    /\ halted # "ub"
    /\ \A i \in Threads :
        /\ reaped[i].joins <= 1
        /\ reaped[i].merges <= reaped[i].joins
        /\ reaped[i].frees = reaped[i].merges
        /\ reaped[i].joins = 1 => i \in Announced
    /\ u.thread_model = "TM_ROOT" /\ dpc # "call" =>
        /\ Cardinality(Announced) - fr.joined \in {0, 1}
        /\ fr.joined = Cardinality({ i \in Workers : reaped[i].joins = 1 })
    /\ u.thread_model = "TM_ROOT" /\ Returned =>
        /\ \A i \in Workers :
            /\ reaped[i] = [joins |-> 1, merges |-> 1, frees |-> 1]
            /\ wres[i] = "freed"
        /\ fr.played_games = SumGames(u.threads)

\* A search of three workers has returned with every worker reaped and at
\* least two games played.
C1_Witness ==
    /\ Returned
    /\ u.threads = 3
    /\ \A i \in Workers : reaped[i].joins = 1 /\ reaped[i].frees = 1
    /\ fr.played_games >= 2

CeilHalf(n) == (n + 1) \div 2
FloorHalf(n) == n \div 2
\* The join after whose gather step the driver raises uct_halt.
HaltJoin(n) == IF FloorHalf(n) >= 1 THEN FloorHalf(n) ELSE 1

\* The halt test of the latest join has run (the driver is not between
\* joined++ and the test).
HaltTested == dpc # "gather"

\* C2 as stated: uct_halt is 0 while fewer than ceil(N/2) workers have been
\* joined, and 1 once the ceil(N/2)-th join has been processed.
C2_HaltAtCeilHalf ==
    u.thread_model = "TM_ROOT" /\ dpc # "call" =>
        /\ fr.joined < CeilHalf(u.threads) => uct_halt = 0
        /\ (fr.joined > CeilHalf(u.threads)
            \/ (fr.joined = CeilHalf(u.threads) /\ HaltTested)) => uct_halt = 1

\* C2, amended: the threshold is max(1, floor(N/2)).  uct_halt is 0 while
\* fewer than max(1, floor(N/2)) workers have been joined, and 1 in every
\* state after the halt test that follows the max(1, floor(N/2))-th join.
C2_HaltAtFloorHalf ==
    u.thread_model = "TM_ROOT" /\ dpc # "call" =>
        /\ fr.joined < HaltJoin(u.threads) => uct_halt = 0
        /\ (fr.joined > HaltJoin(u.threads)
            \/ (fr.joined = HaltJoin(u.threads) /\ HaltTested)) => uct_halt = 1

\* Three workers, one joined and gathered, two still to be joined: uct_halt
\* is already 1.
C2_Witness ==
    /\ u.threads = 3
    /\ fr.joined = 1
    /\ dpc = "wait"
    /\ uct_halt = 1

\* C3: under fair scheduling uct_threaded_playouts returns with all N
\* workers joined; no interleaving blocks forever on finish_mutex,
\* finish_serializer, finish_cond or pthread_join.
C3_SearchReturns ==
    <>(Returned /\ fr.joined = u.threads /\ \A i \in Workers : wpc[i] = "joined")

\* A search of three workers has returned, all of them joined, after a
\* worker was stopped by uct_halt with its budget unused.
C3_Witness ==
    /\ Returned
    /\ u.threads = 3
    /\ fr.joined = 3
    /\ \E i \in Workers : wpc[i] = "joined" /\ wgames[i] < u.games

\* The three counters of the followed point, added up.
PointSum(m) == m.map[S_NONE] + m.map[S_BLACK] + m.map[S_WHITE]

NotifyKids(book) ==
    IF es THEN t.kids
    ELSE IF ~u.no_book /\ b.moves = 0 THEN book ELSE {}

\* C5: a notify_play that returns leaves no per-game state when the move is
\* a resignation or the root has no child for move.coord; otherwise state
\* exists on return and the root is the child for that move.
C5_NotifyPlayState ==
    [][dpc = "idle" =>
       \A m \in MoveInputs, book \in BookChoices :
        uct_notify_play(m, book, t'.kids) /\ halted' = "run" =>
            IF is_resign(m.coord) \/ m.coord \notin NotifyKids(book)
            THEN ~es' /\ t' = NoTree
            ELSE /\ es'
                 /\ t'.coord = m.coord]_vars

\* notify_play promoted the child for the move: state exists and the root
\* stands for that move.
C5_Witness ==
    /\ hist.op = "notify_play"
    /\ hist.out = "promoted"
    /\ es
    /\ t.coord = hist.ret

\* The move uct_genmove returned in the step just taken.
Ret == hist'.ret

\* C6: a genmove that returns leaves no state when choose gave no node (it
\* returns pass) and when it returns resign; otherwise state exists, the
\* chosen node is the new root, and the root's move is the move returned,
\* also when that move was overridden to pass.
C6_GenmoveState ==
    [][dpc = "choose" =>
       \A best \in Moves \cup {no_move}, v \in BestValues, safe \in BOOLEAN :
        uct_genmove_finish(best, v, safe, t'.kids) =>
            /\ best = no_move => Ret = pass /\ ~es' /\ t' = NoTree
            /\ Ret = resign => ~es' /\ t' = NoTree
            /\ best # no_move /\ Ret # resign =>
                /\ es'
                /\ t'.coord = Ret
                /\ t'.root_color = stone_other(t.root_color)]_vars

\* genmove returned the move of the node it chose and promoted.
C6_Witness ==
    /\ hist.op = "genmove"
    /\ hist.out = "move"
    /\ es
    /\ t.coord = hist.ret
    /\ dpc = "idle"

\* C7: genmove returns resign exactly when the chosen node's value is below
\* resign_ratio and its move is not pass; the state is then destroyed, and
\* neither a chosen pass nor the pass override yields a resignation.
C7_ResignIff ==
    [][dpc = "choose" =>
       \A best \in Moves \cup {no_move}, v \in BestValues, safe \in BOOLEAN :
        uct_genmove_finish(best, v, safe, t'.kids) =>
            /\ Ret = resign <=> (best # no_move /\ v < resign_ratio /\ best # pass)
            /\ Ret = resign => ~es' /\ om' = NoMap
            /\ best = pass => Ret = pass]_vars

\* genmove resigned and the state is gone.
C7_Witness ==
    /\ hist.op = "genmove"
    /\ hist.ret = resign
    /\ ~es
    /\ dpc = "idle"

\* C8: genmove replaces the chosen move by pass only when the opponent's
\* last move was a pass, b->moves > 1, the owner map holds at least
\* GJ_MINGAMES playouts when pass_is_safe is evaluated, and pass_is_safe
\* holds; and uct_pass_is_safe answers false whenever the owner map holds
\* fewer than GJ_MINGAMES playouts.
C8_PassOverride ==
    [][/\ dpc = "choose" =>
            \A best \in Moves \ {pass}, v \in BestValues, safe \in BOOLEAN :
                uct_genmove_finish(best, v, safe, t'.kids) /\ Ret = pass =>
                    /\ b.last_pass
                    /\ b.moves > 1
                    /\ om'.playouts >= GJ_MINGAMES
                    /\ safe
       /\ PassIsSafe /\ halted' = "run" /\ om.playouts < GJ_MINGAMES =>
            hist'.out = "false"]_vars

\* genmove chose a point and returned pass instead.
C8_Witness ==
    /\ hist.op = "genmove"
    /\ hist.out = "override"
    /\ hist.ret = pass
    /\ om.playouts >= 500
    /\ b.last_pass

\* C9: genmove with state present and a colour other than
\* stone_other(root_color) ends the process (exit(1) after the diagnostic
\* when the board has moves, the assertion before it otherwise) with the
\* tree and the owner map as they were and no playout run.
C9_GenmoveNonAlternating ==
    [][dpc = "idle" =>
       \A color \in Colors, book \in BookChoices, legal \in SUBSET Coords :
        uct_genmove_enter("idle", color, book, legal)
            /\ es /\ color # stone_other(t.root_color) =>
                /\ halted' = IF b.moves > 0 THEN "exit" ELSE "abort"
                /\ t' = t
                /\ om' = om
                /\ es' = es
                /\ dpc' = "idle"
                /\ recorded' = recorded
                /\ fr' = fr]_vars

\* The process has exited in a genmove that came with the wrong colour.
C9_Witness ==
    /\ halted = "exit"
    /\ hist.op = "genmove"
    /\ hist.nonalt
    /\ es

\* C10 as stated: notify_play with state present and a colour that
\* contradicts stone_other(root_color) terminates the process.
C10_NotifyNonAlternatingFatal ==
    [][dpc = "idle" =>
       \A m \in MoveInputs, book \in BookChoices :
        uct_notify_play(m, book, t'.kids)
            /\ es /\ m.color # stone_other(t.root_color) =>
                halted' # "run"]_vars

\* C10, amended: notify_play checks the colour only when it has to create
\* the state.  With state present and a contradicting colour the process
\* goes on: a resignation destroys the state, a move the root has a child
\* for is promoted whatever its colour, any other move destroys the state.
C10_NotifyNonAlternatingGoesOn ==
    [][dpc = "idle" =>
       \A m \in MoveInputs, book \in BookChoices :
        uct_notify_play(m, book, t'.kids)
            /\ es /\ m.color # stone_other(t.root_color) =>
                /\ halted' = "run"
                /\ IF ~is_resign(m.coord) /\ m.coord \in t.kids
                   THEN /\ es'
                        /\ t'.coord = m.coord
                        /\ t'.root_color = stone_other(t.root_color)
                        /\ om' = om
                   ELSE ~es']_vars

\* A move of the wrong colour has been promoted to root.
C10_Witness ==
    /\ hist.op = "notify_play"
    /\ hist.nonalt
    /\ hist.out = "promoted"
    /\ halted = "run"
    /\ es

\* C11: a call of dead_group_list leaves the per-game state as it found it:
\* with pass_all_alive it reports no dead group and touches nothing; a
\* state that existed is still there with the same tree and owner map; and
\* where none existed none exists afterwards (the mock state is freed), so
\* that the genmove that follows, of either colour, does not end in the
\* non-alternating exit and, where prepare_move passes, searches a fresh
\* tree.
C11_DeadGroupListState ==
    [][dpc = "idle" /\ halted = "run" =>
        /\ \A book \in BookChoices : uct_dead_group_list(book) =>
            /\ halted' = "run"
            /\ es' = es /\ t' = t /\ om' = om
            /\ u.pass_all_alive => hist'.out = "all_alive"
            /\ ~u.pass_all_alive /\ ~es => ~es' /\ t' = NoTree /\ om' = NoMap
        /\ hist.op = "dead_group_list" /\ hist.out = "mock" =>
            \A color \in Colors, book \in BookChoices, legal \in SUBSET Coords :
                uct_genmove_enter("idle", color, book, legal) =>
                    /\ ~es
                    /\ halted' # "exit"
                    /\ ~hist'.nonalt
                    /\ halted' = "run" =>
                        /\ es'
                        /\ t'.coord = no_move
                        /\ t'.root_color = stone_other(color)
                        /\ t'.kids \subseteq book]_vars

\* A call without state on a board with moves has run and freed its mock
\* state.
C11_Witness ==
    /\ hist.op = "dead_group_list"
    /\ hist.out = "mock"
    /\ ~es
    /\ b.moves > 0
    /\ dpc = "idle"

RECURSIVE SumRootVisits(_)
SumRootVisits(n) ==
    IF n = 0 THEN 0 ELSE worker_tree(mg, n - 1).root.playouts + SumRootVisits(n - 1)

\* The master after the trees of workers 0 .. n - 1 were merged in that
\* order.
RECURSIVE MergedInOrder(_)
MergedInOrder(n) ==
    IF n = 0 THEN mg.base
    ELSE tree_merge_stats(MergedInOrder(n - 1), worker_tree(mg, n - 1))

\* C13: after the collection (N copies, every worker's tree merged into
\* the master, normalize(N)) the root visits of the master are the sum of
\* the workers' root visits divided by N, to the nearest whole number,
\* whatever counts the master started with.
C13_RootVisitsAverage ==
    mg.phase = "done" =>
        LET d == u.threads * mg.master.root.playouts - SumRootVisits(u.threads)
        IN 2 * d <= u.threads /\ 2 * (0 - d) <= u.threads

\* C14: for a given master and given finished worker trees the normalized
\* master has the same counts whatever the order in which the workers
\* finished: they are those of the merge in the order of the worker ids,
\* after every join and at the end.
C14_OrderIndependent ==
    /\ mg.phase = "merge" /\ mg.left = {} => mg.master = MergedInOrder(u.threads)
    /\ mg.phase = "done" =>
            mg.master = tree_normalize(MergedInOrder(u.threads), u.threads)

\* A collection of at least two workers with different trees, one of which
\* grafted the child into the master, has been normalized.
C14_Witness ==
    /\ mg.phase = "done"
    /\ u.threads >= 2
    /\ worker_tree(mg, 0) # worker_tree(mg, 1)
    /\ ~mg.base.kid.here
    /\ mg.master.kid.here
    /\ mg.master.root.playouts > 0

\* The options uct_state_init reads: those up to a banner with a value,
\* whose text is the rest of the argument.
Seen(arg) ==
    { i \in 1..Len(arg) :
        \A j \in 1..(i - 1) : ~(arg[j].name = "banner" /\ arg[j].val # NoVal) }

\* An option with an unknown name, without the value its name requires, or
\* with a name of a policy, playout or thread model that does not exist.
BadOption(o) ==
    \/ o.name = "bogus"
    \/ o.name \notin {"pass_all_alive", "bogus"} /\ o.val = NoVal
    \/ o.name \in {"policy", "random_policy"} /\ o.val \notin {"ucb1", "ucb1amaf"}
    \/ o.name = "playout" /\ o.val \notin {"moggy", "light"}
    \/ o.name = "thread_model" /\ o.val \notin {"none", "root"}

\* Whether the last option of that name that is read has a value other
\* than 0.
LastNonZero(arg, name) ==
    \E i \in Seen(arg) :
        /\ arg[i].name = name
        /\ atoi(arg[i].val) # 0
        /\ \A j \in Seen(arg) : j > i => arg[j].name # name

\* C15: uct_state_init exits exactly on the arguments that hold an unknown
\* option, an option without its required value, an invalid policy,
\* playout or thread_model name, or that leave exactly one of random_policy
\* and random_policy_chance set (a chance of 0 is not set); for every other
\* argument it returns a configuration where threads = 0 gives thread_model
\* none, games is MC_GAMES unless given, and expand_p is 2.
C15_StateInitExits ==
    cfg.out # "none" =>
        LET arg == cfg.arg
            bad == \E i \in Seen(arg) : BadOption(arg[i])
            rp == \E i \in Seen(arg) : arg[i].name = "random_policy"
            rejected == bad \/ (rp # LastNonZero(arg, "random_policy_chance"))
        IN /\ cfg.out = "exit" <=> rejected
           /\ cfg.out = "exit" => halted = "exit"
           /\ cfg.out = "ok" =>
                /\ u.status = "ok"
                /\ u.threads = 0 => u.thread_model = "TM_NONE"
                /\ u.expand_p = 2
                /\ (\A i \in Seen(arg) : arg[i].name # "games") => u.games = MC_GAMES

\* An argument with thread_model=root and no threads was accepted and gave
\* thread_model none.
C15_Witness ==
    /\ cfg.out = "ok"
    /\ \E i \in 1..Len(cfg.arg) : cfg.arg[i] = [name |-> "thread_model", val |-> "root"]
    /\ u.threads = 0
    /\ u.thread_model = "TM_NONE"
    /\ u.games = MC_GAMES

\* C20: every configuration uct_state_init returns has threads > 0 where
\* thread_model is root, and thread_model none where threads is 0, so that
\* no search fails the assertion of the root branch of
\* uct_threaded_playouts.
C20_RootHasThreads ==
    cfg.out = "ok" =>
        /\ u.thread_model = "TM_ROOT" => u.threads > 0
        /\ u.threads = 0 => u.thread_model = "TM_NONE"
        /\ halted # "abort"

\* C16: whenever the driver is back from the wait and about to join,
\* finish_thread is the id of a worker that is through its playouts, has
\* signalled and released finish_mutex and was not joined before; a worker
\* stores finish_thread and signals only while the driver waits and while
\* no other worker is between taking the serializer and being joined; and
\* finish_thread is not written from the signal until the driver has
\* released the serializer.
C16_FinishThreadValid ==
    [][/\ dpc' = "join" =>
            /\ finish_thread' \in Workers
            /\ wpc'[finish_thread'] \in {"return", "done"}
            /\ uct_playouts_stop(wgames'[finish_thread'], u.games, uct_halt')
            /\ reaped'[finish_thread'].joins = 0
            /\ finish_serializer' = "locked"
       /\ \A i \in Workers :
            wpc[i] = "lock_mutex" /\ wpc'[i] = "unlock" =>
                /\ dpc = "wait"
                /\ \A j \in Workers \ {i} :
                    wpc[j] \notin {"lock_mutex", "unlock", "return", "done"}
       /\ dpc \in {"woken", "join", "gather"} =>
            /\ finish_thread' = finish_thread
            /\ \A i \in Workers : wpc[i] = "lock_mutex" => wpc'[i] = "lock_mutex"]_vars

\* The driver is about to join a worker other than the first one spawned,
\* after an earlier join, while another worker still runs.
C16_Witness ==
    /\ dpc = "join"
    /\ fr.joined >= 1
    /\ finish_thread # 0
    /\ \E j \in Workers : wpc[j] = "run"

\* The workers whose uct_playouts is under way: they read and write the
\* tree of their spawn_ctx.
Playing == { i \in Workers : wpc[i] \in {"run", "fill"} }

\* C17: in a root-parallel search no tree is used by two threads at once.
\* While the driver copies, merges into or normalizes the master, no worker
\* plays on the master; no two workers play on the same tree; the driver
\* merges and frees a worker's tree only after it joined that worker; the
\* master changes only in the driver's merge, and only after all
\* u->threads copies were taken, so that every copy is one of the tree as
\* it was at the entry of uct_threaded_playouts.
C17_TreesExclusive ==
    [][/\ \A i \in Playing' : ctx_t(i) # MasterTree
       /\ \A i, j \in Playing' : i # j => ctx_t(i) # ctx_t(j)
       /\ dpc' = "gather" =>
            /\ wpc'[finish_thread'] = "joined"
            /\ wres'[finish_thread'] = "live"
            /\ \A i \in Playing' : ctx_t(i) # ctx_t(finish_thread')
       /\ \A i \in Workers : wres'[i] = "freed" => wpc'[i] = "joined"
       /\ dpc \in {"spawn", "loop", "wait", "woken", "join", "gather"} /\ t' # t =>
            /\ dpc = "gather"
            /\ fr.ti = u.threads
       /\ fr'.joined > 0 => fr'.ti = u.threads
       /\ dpc' = "loop" => fr'.ti = u.threads]_vars

\* The driver is about to merge the tree of the first worker it joined
\* while another worker still plays on its own copy.
C17_Witness ==
    /\ dpc = "gather"
    /\ fr.joined = 1
    /\ fr.ti = u.threads
    /\ Playing # {}

\* C18: in a root-parallel search uct_halt is 0 whenever a worker is
\* spawned, whatever an earlier search left in it; from the entry of
\* uct_threaded_playouts to its return it changes only from 0 to 1, and
\* only in the driver's step after a join; no step of a worker changes it.
C18_HaltOneShot ==
    [][/\ dpc = "spawn" => uct_halt = 0
       /\ dpc' = "spawn" => uct_halt' = 0
       /\ dpc \in {"spawn", "loop", "wait", "woken", "join", "gather"}
            /\ uct_halt' # uct_halt =>
                /\ uct_halt = 0
                /\ uct_halt' = 1
                /\ dpc = "gather"
                /\ dpc' = "loop"
                /\ wpc' = wpc]_vars

\* The driver has raised uct_halt and waits for a worker that still runs.
C18_Witness ==
    /\ dpc = "wait"
    /\ uct_halt = 1
    /\ fr.joined < u.threads
    /\ \E i \in Workers : wpc[i] = "run"

\* C19: in a game where genmove(c) and notify_play(other(c), m) alternate
\* from a board without state, every genmove returning a move of a chosen
\* node other than a resignation and every m being a child of the root:
\* the state, once made, is freed only by a genmove that resigns or finds
\* no node; after each notify_play the root is at m; between calls the
\* colour of the next call is other(root_color); and no call ends in the
\* non-alternating exit.
C19_GameAlternates ==
    [][/\ es /\ ~es' => hist'.op = "genmove" /\ hist'.out \in {"resign", "nil_pass"}
       /\ halted' # "exit"
       /\ ~hist'.nonalt
       /\ hist'.op = "notify_play" /\ hist.op = "genmove" =>
            /\ es'
            /\ hist'.out = "promoted"
            /\ t'.coord = hist'.ret
       /\ es' /\ dpc' = "idle" /\ halted' = "run" =>
            stone_other(t'.root_color)
                = IF hist'.op = "genmove" THEN stone_other(game'.color) ELSE game'.color]_vars

\* The second genmove of a game has returned a move: two moves are on the
\* board, the opponent's was notified and the state is still there.
C19_Witness ==
    /\ b.moves >= 2
    /\ hist.op = "genmove"
    /\ hist.out \in {"move", "override"}
    /\ dpc = "idle"
    /\ es
    /\ game.parity = 0

\* How a call ends that has called uct_done_board_state.
DoneOuts == {"resigned", "promote_failed", "nil_pass", "resign", "mock"}

\* C21: over every sequence of notify_play, genmove and dead_group_list
\* calls, no call of uct_done_board_state fails its assertions (it finds
\* the state, with its tree); the call that made it returns at once and
\* leaves no state, no tree and no owner map; and a state that existed goes
\* away only in such a call, so that none is freed twice or used after it
\* was freed.
C21_DoneBoardStateOnce ==
    [][/\ halted' # "done_abort"
       /\ hist'.out \in DoneOuts =>
            /\ ~es'
            /\ t' = NoTree
            /\ om' = NoMap
            /\ dpc' = "idle"
            /\ halted' = "run"
       /\ es /\ ~es' => hist'.out \in DoneOuts /\ t # NoTree
       /\ dpc' = "choose" => es' /\ t' # NoTree
       /\ ~es' => t' = NoTree /\ om' = NoMap]_vars

\* A genmove that found state left by an earlier call has resigned.
C21_Witness ==
    /\ hist.op = "genmove"
    /\ hist.out = "resign"
    /\ b.moves > 0
    /\ ~es
    /\ dpc = "idle"

====
